---- MODULE Spec2Model ----
(***************************************************************************)
(* Balanced Scorecard KPI store (BSC_Draft1.py).                           *)
(*                                                                         *)
(* Text is a sequence of characters; a character is a one-character string *)
(* (the two non-ASCII letters of the alphabet are named by code point).    *)
(* target, actual and weight are floats holding whole numbers; a score is  *)
(* held as a whole number of hundredths (8000 is 80.0, -938 is -9.38).     *)
(***************************************************************************)
EXTENDS Integers, Sequences, FiniteSets, TLC

VARIABLES kpis, nextId, before, last, running

vars == <<kpis, nextId, before, last, running>>

\* Cap of the AUTOINCREMENT counter of table kpis (unbounded in SQLite).
MaxId == 2

-----------------------------------------------------------------------------
\* Characters and the text functions of Python and SQLite the program uses.

UpperAscii == <<"A","B","C","D","E","F","G","H","I","J","K","L","M","N","O","P","Q","R","S","T","U","V","W","X","Y","Z">>

LowerAscii == <<"a","b","c","d","e","f","g","h","i","j","k","l","m","n","o","p","q","r","s","t","u","v","w","x","y","z">>

Digits == <<"0","1","2","3","4","5","6","7","8","9">>

\* LATIN CAPITAL LETTER E WITH ACUTE and LATIN SMALL LETTER E WITH ACUTE.
UpperEAcute == "U+00C9"

LowerEAcute == "U+00E9"

IndexIn(seq, c) == CHOOSE i \in 1..Len(seq) : seq[i] = c

Occurs(seq, c) == \E i \in 1..Len(seq) : seq[i] = c

AsciiLowerMap == [c \in {UpperAscii[i] : i \in 1..Len(UpperAscii)} |-> LowerAscii[IndexIn(UpperAscii, c)]]

AsciiLowerChar(c) == IF c \in DOMAIN AsciiLowerMap THEN AsciiLowerMap[c] ELSE c

\* str.lower(): Unicode case mapping.
PyLowerChar(c) == IF c = UpperEAcute THEN LowerEAcute ELSE AsciiLowerChar(c)

PyLower(s) == [i \in 1..Len(s) |-> PyLowerChar(s[i])]

\* SQLite's built-in LOWER(): folds the ASCII letters only.
SqliteLower(s) == [i \in 1..Len(s) |-> AsciiLowerChar(s[i])]

IsSpace(c) == c = " "

RECURSIVE LStrip(_)
LStrip(s) == IF s # <<>> /\ IsSpace(Head(s)) THEN LStrip(Tail(s)) ELSE s

RECURSIVE RStrip(_)
RStrip(s) == IF s # <<>> /\ IsSpace(s[Len(s)]) THEN RStrip(SubSeq(s, 1, Len(s) - 1)) ELSE s

\* str.strip()
PyStrip(s) == RStrip(LStrip(s))

\* str(i) for 0 <= i <= 9
PyStr(i) == <<Digits[i + 1]>>

DigitMap == [c \in {Digits[i] : i \in 1..Len(Digits)} |-> IndexIn(Digits, c) - 1]

RECURSIVE DigitsValue(_)
DigitsValue(s) == IF s = <<>> THEN 0 ELSE 10 * DigitsValue(SubSeq(s, 1, Len(s) - 1)) + DigitMap[s[Len(s)]]

AllDigits(s) == s # <<>> /\ \A i \in 1..Len(s) : s[i] \in DOMAIN DigitMap

\* float(text) on the decimal whole-number literals: surrounding blanks are
\* ignored, one sign is allowed, anything else raises ValueError.
PyFloat(text) ==
    LET s == PyStrip(text)
        signed == s # <<>> /\ Head(s) \in {"-", "+"}
        body == IF signed THEN Tail(s) ELSE s
    IN  IF AllDigits(body)
        THEN [ok |-> TRUE, value |-> IF signed /\ Head(s) = "-" THEN -DigitsValue(body) ELSE DigitsValue(body)]
        ELSE [ok |-> FALSE, value |-> 0]

\* round(num / den) of Python: to the nearest whole number, ties to the even
\* one (den # 0). round(x, 2) is this on x * 100, counted in hundredths.
RoundHalfEven(num, den) ==
    LET n == IF den < 0 THEN -num ELSE num
        d == IF den < 0 THEN -den ELSE den
        fl == n \div d
        rem == n - fl * d
    IN  IF 2 * rem < d THEN fl
        ELSE IF 2 * rem > d THEN fl + 1
        ELSE IF fl % 2 = 0 THEN fl ELSE fl + 1

-----------------------------------------------------------------------------
\* The program.

Financial == <<"F","i","n","a","n","c","i","a","l">>

Customer == <<"C","u","s","t","o","m","e","r">>

InternalProcesses == <<"I","n","t","e","r","n","a","l"," ","P","r","o","c","e","s","s","e","s">>

LearningAndGrowth == <<"L","e","a","r","n","i","n","g"," ","&"," ","G","r","o","w","t","h">>

PERSPECTIVES == <<Financial, Customer, InternalProcesses, LearningAndGrowth>>

\* line 24: round((actual / target) * 100 if target else 0, 2), in hundredths
calculate_score(target, actual) ==
    IF target # 0 THEN RoundHalfEven(actual * 10000, target) ELSE 0

KPI(name, target, actual, weight) ==
    [name |-> name, target |-> target, actual |-> actual, weight |-> weight,
     score |-> calculate_score(target, actual)]

\* What a call leaves behind: the table, the AUTOINCREMENT counter, the
\* exception it raised, the value it returned and the lines it wrote.
Outcome(rows, nid, raised, returned, printed) ==
    [rows |-> rows, nextId |-> nid, raised |-> raised, returned |-> returned, printed |-> printed]

\* SELECT 1 FROM kpis WHERE perspective = ? AND name = ?  (BINARY collation)
SelectOne(rows, perspective, name) ==
    \E i \in 1..Len(rows) : rows[i].perspective = perspective /\ rows[i].name = name

\* INSERT INTO kpis (...) VALUES (...), under UNIQUE(perspective, name)
SqlInsert(rows, nid, perspective, kpi) ==
    IF SelectOne(rows, perspective, kpi.name)
    THEN Outcome(rows, nid, "IntegrityError", "None", <<>>)
    ELSE Outcome(Append(rows, [id |-> nid, perspective |-> perspective, name |-> kpi.name,
                               target |-> kpi.target, actual |-> kpi.actual,
                               weight |-> kpi.weight, score |-> kpi.score]),
                 nid + 1, "None", "None", <<>>)

\* add_kpi without the SELECT of lines 68-70: the UNIQUE constraint alone answers.
DatabaseManager_add_kpi_unchecked(rows, nid, perspective, kpi) ==
    LET ins == SqlInsert(rows, nid, perspective, kpi)
    IN  [ins EXCEPT !.printed = <<"Adding KPI">>]

\* lines 67-76
DatabaseManager_add_kpi(rows, nid, perspective, kpi) ==
    IF SelectOne(rows, perspective, kpi.name)
    THEN Outcome(rows, nid, "ValueError", "None", <<>>)
    ELSE LET ins == SqlInsert(rows, nid, perspective, kpi)
         IN  [ins EXCEPT !.printed = <<"Adding KPI">>]

\* new_score cut off after two decimals instead of rounded.
new_score_trunc(new_target, new_actual) ==
    IF new_target # 0 THEN (new_actual * 10000) \div new_target ELSE 0

\* line 52: round((new_actual / new_target) * 100 if new_target else 0, 2)
new_score(new_target, new_actual) ==
    IF new_target # 0 THEN RoundHalfEven(new_actual * 10000, new_target) ELSE 0

\* UPDATE kpis SET target = ?, actual = ?, score = ? WHERE perspective = ? AND name = ?
SqlUpdate(rows, perspective, name, target, actual, score) ==
    [i \in 1..Len(rows) |->
        IF rows[i].perspective = perspective /\ rows[i].name = name
        THEN [rows[i] EXCEPT !.target = target, !.actual = actual, !.score = score]
        ELSE rows[i]]

\* update_kpi inserting the record it does not find.
DatabaseManager_update_kpi_upsert(rows, nid, perspective, kpi_name, new_target, new_actual) ==
    IF ~SelectOne(rows, perspective, kpi_name)
    THEN SqlInsert(rows, nid, perspective, KPI(kpi_name, new_target, new_actual, 1))
    ELSE Outcome(SqlUpdate(rows, perspective, kpi_name, new_target, new_actual,
                           new_score(new_target, new_actual)),
                 nid, "None", "None", <<>>)

\* update_kpi with WHERE name = ? alone.
DatabaseManager_update_kpi_by_name(rows, nid, perspective, kpi_name, new_target, new_actual) ==
    IF ~SelectOne(rows, perspective, kpi_name)
    THEN Outcome(rows, nid, "None", "None", <<"not found">>)
    ELSE Outcome([i \in 1..Len(rows) |->
                    IF rows[i].name = kpi_name
                    THEN [rows[i] EXCEPT !.target = new_target, !.actual = new_actual,
                                         !.score = new_score(new_target, new_actual)]
                    ELSE rows[i]],
                 nid, "None", "None", <<>>)

\* lines 47-58
DatabaseManager_update_kpi(rows, nid, perspective, kpi_name, new_target, new_actual) ==
    IF ~SelectOne(rows, perspective, kpi_name)
    THEN Outcome(rows, nid, "None", "None", <<"not found">>)
    ELSE Outcome(SqlUpdate(rows, perspective, kpi_name, new_target, new_actual,
                           new_score(new_target, new_actual)),
                 nid, "None", "None", <<>>)

RECURSIVE SqlDelete(_, _, _)
\* DELETE FROM kpis WHERE perspective = ? AND name = ?
SqlDelete(rows, perspective, name) ==
    IF rows = <<>> THEN <<>>
    ELSE IF Head(rows).perspective = perspective /\ Head(rows).name = name
         THEN SqlDelete(Tail(rows), perspective, name)
         ELSE <<Head(rows)>> \o SqlDelete(Tail(rows), perspective, name)

\* DELETE FROM kpis WHERE name = ?
RECURSIVE SqlDeleteByName(_, _)
SqlDeleteByName(rows, name) ==
    IF rows = <<>> THEN <<>>
    ELSE IF Head(rows).name = name
         THEN SqlDeleteByName(Tail(rows), name)
         ELSE <<Head(rows)>> \o SqlDeleteByName(Tail(rows), name)

\* delete_kpi with WHERE name = ? alone.
DatabaseManager_delete_kpi_by_name(rows, nid, perspective, kpi_name) ==
    Outcome(SqlDeleteByName(rows, kpi_name), nid, "None", "None", <<>>)

\* lines 60-65
DatabaseManager_delete_kpi(rows, nid, perspective, kpi_name) ==
    Outcome(SqlDelete(rows, perspective, kpi_name), nid, "None", "None", <<>>)

RECURSIVE RowsOf(_, _)
\* the rows of one perspective, in SELECT (rowid) order, as the report's dicts
RowsOf(rows, perspective) ==
    IF rows = <<>> THEN <<>>
    ELSE IF Head(rows).perspective = perspective
         THEN <<[KPI |-> Head(rows).name, Target |-> Head(rows).target,
                 Actual |-> Head(rows).actual, Score |-> Head(rows).score]>>
              \o RowsOf(Tail(rows), perspective)
         ELSE RowsOf(Tail(rows), perspective)

\* The dict comes back as its items in insertion order; grouped[row[0]] of a
\* perspective that is no key raises KeyError and nothing comes back.
get_kpis_by_perspective(rows) ==
    IF \E i \in 1..Len(rows) : ~Occurs(PERSPECTIVES, rows[i].perspective)
    THEN [raised |-> "KeyError", returned |-> "None", grouped |-> <<>>]
    ELSE [raised |-> "None", returned |-> "dict",
          grouped |-> [k \in 1..Len(PERSPECTIVES) |->
                          [key |-> PERSPECTIVES[k], items |-> RowsOf(rows, PERSPECTIVES[k])]]]

BalancedScorecard_add_kpi(rows, nid, perspective, kpi_name, target, actual, weight) ==
    DatabaseManager_add_kpi(rows, nid, perspective, KPI(kpi_name, target, actual, weight))

BalancedScorecard_edit_kpi(rows, nid, perspective, kpi_name, new_target, new_actual) ==
    DatabaseManager_update_kpi(rows, nid, perspective, kpi_name, new_target, new_actual)

BalancedScorecard_delete_kpi(rows, nid, perspective, kpi_name) ==
    DatabaseManager_delete_kpi(rows, nid, perspective, kpi_name)

-----------------------------------------------------------------------------
\* interactive_menu: one pass of the while-loop per menu action.

\* What one pass of the loop leaves behind. raised is the exception that left
\* the loop ("None" when the pass ended normally or the exception was
\* caught), continues whether the loop goes on to the next prompt, reads the
\* prompts that were answered.
MenuOutcome(rows, nid, raised, printed, continues, reads, perspective, name, target, actual) ==
    [rows |-> rows, nextId |-> nid, raised |-> raised, printed |-> printed,
     continues |-> continues, reads |-> reads, perspective |-> perspective,
     name |-> name, target |-> target, actual |-> actual]

\* list[k] of Python: a negative k counts from the end.
PyItem(list, k) == list[IF k < 0 THEN k + Len(list) + 1 ELSE k + 1]

\* lines 131-134, on the stripped and lowered input; numbers holds the
\* accepted [str(i + 1) for i in range(len(PERSPECTIVES))]
PerspectiveOfInput(p_input, matches, numbers) ==
    IF p_input \in numbers
    THEN <<PyItem(PERSPECTIVES, DigitsValue(p_input) - 1)>>
    ELSE IF matches # <<>> THEN <<matches[1]>> ELSE <<>>

LowerPerspectives == [k \in 1..Len(PERSPECTIVES) |-> PyLower(PERSPECTIVES[k])]

\* [p for p in PERSPECTIVES if p.lower() == p_input], cut to its first element
Matches(p_input) ==
    LET hits == {k \in 1..Len(PERSPECTIVES) : LowerPerspectives[k] = p_input}
    IN  IF hits = {} THEN <<>> ELSE <<PERSPECTIVES[CHOOSE k \in hits : \A j \in hits : k <= j]>>

\* get_valid_perspective accepting str(i) for i in range(len(PERSPECTIVES) + 1).
get_valid_perspective_from_zero(p_in) ==
    PerspectiveOfInput(PyLower(PyStrip(p_in)), Matches(PyLower(PyStrip(p_in))),
                       {PyStr(i) : i \in 0..Len(PERSPECTIVES)})

\* lines 127-134. Returns <<p>> for the perspective p, << >> for None; the
\* accepted numbers are str(i + 1) for i in range(len(PERSPECTIVES)).
get_valid_perspective(p_in) ==
    PerspectiveOfInput(PyLower(PyStrip(p_in)), Matches(PyLower(PyStrip(p_in))),
                       {PyStr(i + 1) : i \in 0..(Len(PERSPECTIVES) - 1)})

\* line 146: SELECT 1 FROM kpis WHERE LOWER(perspective) = ? AND LOWER(name) = ?
SelectOneLower(rows, perspective_lower, name_lower) ==
    \E i \in 1..Len(rows) :
        /\ SqliteLower(rows[i].name) = name_lower
        /\ SqliteLower(rows[i].perspective) = perspective_lower

\* lines 143-153, the perspective chosen
AddToPerspective(rows, nid, perspective, kpi_name, target, actual) ==
    IF SelectOneLower(rows, PyLower(perspective), PyLower(kpi_name))
    THEN MenuOutcome(rows, nid, "None", <<"Error: already exists">>, TRUE,
                     {"perspective", "name"}, perspective, kpi_name, 0, 0)
    ELSE IF ~target.ok
    THEN MenuOutcome(rows, nid, "None", <<"Error: could not convert">>, TRUE,
                     {"perspective", "name", "target"}, perspective, kpi_name, 0, 0)
    ELSE IF ~actual.ok
    THEN MenuOutcome(rows, nid, "None", <<"Error: could not convert">>, TRUE,
                     {"perspective", "name", "target", "actual"},
                     perspective, kpi_name, target.value, 0)
    ELSE LET add == BalancedScorecard_add_kpi(rows, nid, perspective, kpi_name,
                                              target.value, actual.value, 1)
         IN  IF add.raised = "ValueError"
             THEN MenuOutcome(rows, nid, "None", <<"Error: already exists">>, TRUE,
                              {"perspective", "name", "target", "actual"},
                              perspective, kpi_name, target.value, actual.value)
             ELSE MenuOutcome(add.rows, add.nextId, add.raised, add.printed, add.raised = "None",
                              {"perspective", "name", "target", "actual"},
                              perspective, kpi_name, target.value, actual.value)

\* lines 139-153, sel the result of get_valid_perspective
AddSelected(rows, nid, sel, name_in, target_in, actual_in) ==
    IF sel = <<>>
    THEN MenuOutcome(rows, nid, "None", <<"Invalid perspective choice.">>, TRUE,
                     {"perspective"}, <<>>, <<>>, 0, 0)
    ELSE AddToPerspective(rows, nid, sel[1], PyStrip(name_in), PyFloat(target_in), PyFloat(actual_in))

\* lines 137-153
menu_add(rows, nid, p_in, name_in, target_in, actual_in) ==
    AddSelected(rows, nid, get_valid_perspective(p_in), name_in, target_in, actual_in)

\* lines 94-104, called at 156-157
ShowReport(got) ==
    IF got.raised # "None"
    THEN [raised |-> got.raised, printed |-> <<"Balanced Scorecard Report:">>, grouped |-> <<>>]
    ELSE [raised |-> "None",
          printed |-> <<"Balanced Scorecard Report:">>
                      \o [k \in 1..Len(got.grouped) |->
                             IF got.grouped[k].items # <<>> THEN "table" ELSE " No KPIs added yet."],
          grouped |-> got.grouped]

display_report(rows) == ShowReport(get_kpis_by_perspective(rows))

\* lines 165-176, the perspective chosen
EditInPerspective(rows, nid, perspective, grouped_data, kpi_name, new_target, new_actual) ==
    IF grouped_data.raised # "None"
    THEN MenuOutcome(rows, nid, grouped_data.raised, <<>>, FALSE,
                     {"perspective"}, perspective, <<>>, 0, 0)
    ELSE IF ~new_target.ok
    THEN MenuOutcome(rows, nid, "None", <<"Available KPIs:", "Invalid number input.">>, TRUE,
                     {"perspective", "name", "target"}, perspective, kpi_name, 0, 0)
    ELSE IF ~new_actual.ok
    THEN MenuOutcome(rows, nid, "None", <<"Available KPIs:", "Invalid number input.">>, TRUE,
                     {"perspective", "name", "target", "actual"},
                     perspective, kpi_name, new_target.value, 0)
    ELSE LET edit == BalancedScorecard_edit_kpi(rows, nid, perspective, kpi_name,
                                                new_target.value, new_actual.value)
         IN  MenuOutcome(edit.rows, edit.nextId, "None",
                         <<"Available KPIs:">> \o edit.printed \o <<"KPI update attempted.">>,
                         TRUE, {"perspective", "name", "target", "actual"},
                         perspective, kpi_name, new_target.value, new_actual.value)

\* lines 161-176, sel the result of get_valid_perspective
EditSelected(rows, nid, sel, name_in, target_in, actual_in) ==
    IF sel = <<>>
    THEN MenuOutcome(rows, nid, "None", <<"Invalid perspective choice.">>, TRUE,
                     {"perspective"}, <<>>, <<>>, 0, 0)
    ELSE EditInPerspective(rows, nid, sel[1], get_kpis_by_perspective(rows), PyStrip(name_in),
                           PyFloat(target_in), PyFloat(actual_in))

\* lines 159-176
menu_edit(rows, nid, p_in, name_in, target_in, actual_in) ==
    EditSelected(rows, nid, get_valid_perspective(p_in), name_in, target_in, actual_in)

Yes == <<"y","e","s">>

\* lines 184-194, the perspective chosen
DeleteInPerspective(rows, nid, perspective, grouped_data, kpi_name, confirm) ==
    IF grouped_data.raised # "None"
    THEN MenuOutcome(rows, nid, grouped_data.raised, <<>>, FALSE,
                     {"perspective"}, perspective, <<>>, 0, 0)
    ELSE IF confirm = Yes
    THEN LET del == BalancedScorecard_delete_kpi(rows, nid, perspective, kpi_name)
         IN  MenuOutcome(del.rows, del.nextId, "None", <<"Available KPIs:", "KPI deleted.">>, TRUE,
                         {"perspective", "name", "confirm"}, perspective, kpi_name, 0, 0)
    ELSE MenuOutcome(rows, nid, "None", <<"Available KPIs:", "Deletion cancelled.">>, TRUE,
                     {"perspective", "name", "confirm"}, perspective, kpi_name, 0, 0)

\* lines 180-194, sel the result of get_valid_perspective
DeleteSelected(rows, nid, sel, name_in, confirm_in) ==
    IF sel = <<>>
    THEN MenuOutcome(rows, nid, "None", <<"Invalid perspective choice.">>, TRUE,
                     {"perspective"}, <<>>, <<>>, 0, 0)
    ELSE DeleteInPerspective(rows, nid, sel[1], get_kpis_by_perspective(rows), PyStrip(name_in),
                             PyLower(PyStrip(confirm_in)))

\* lines 178-194
menu_delete(rows, nid, p_in, name_in, confirm_in) ==
    DeleteSelected(rows, nid, get_valid_perspective(p_in), name_in, confirm_in)

\* The labels each branch of the menu accepts (lines 137, 156, 159, 178, 196).
AddChoices == {<<"1">>, <<"a","d","d"," ","a"," ","n","e","w"," ","k","p","i">>, <<"1","."," ","a","d","d"," ","a"," ","n","e","w"," ","k","p","i">>}

ViewChoices == {<<"2">>, <<"v","i","e","w"," ","r","e","p","o","r","t">>, <<"2","."," ","v","i","e","w"," ","r","e","p","o","r","t">>}

EditChoices == {<<"3">>, <<"e","d","i","t"," ","a"," ","k","p","i">>, <<"3","."," ","e","d","i","t"," ","a"," ","k","p","i">>}

DeleteChoices == {<<"4">>, <<"d","e","l","e","t","e"," ","a"," ","k","p","i">>, <<"4","."," ","d","e","l","e","t","e"," ","a"," ","k","p","i">>}

ExitChoices == {<<"5">>, <<"e","x","i","t">>, <<"5","."," ","e","x","i","t">>}

\* line 125: choice = input(...).strip().lower()
Choice(choice_in) == PyLower(PyStrip(choice_in))

-----------------------------------------------------------------------------
\* The state: table kpis (rows in rowid order), its AUTOINCREMENT counter,
\* and a record of the latest call: the table before it, its arguments and
\* what came of it. running is the menu's while-loop not having ended.

NoInput == [choice |-> <<>>, p_input |-> <<>>, name_in |-> <<>>, target_in |-> <<>>,
            actual_in |-> <<>>, confirm_in |-> <<>>, reads |-> {}]

Call(op, perspective, name, target, actual, weight, out, grouped, input) ==
    [op |-> op, perspective |-> perspective, name |-> name, target |-> target,
     actual |-> actual, weight |-> weight, raised |-> out.raised,
     returned |-> out.returned, printed |-> out.printed, grouped |-> grouped,
     input |-> input]

Init ==
    /\ kpis = <<>>
    /\ nextId = 1
    /\ before = <<>>
    /\ last = Call("none", <<>>, <<>>, 0, 0, 0, [raised |-> "None", returned |-> "None", printed |-> <<>>], <<>>, NoInput)
    /\ running = TRUE

\* BalancedScorecard.add_kpi
AddIndicator(perspective, kpi_name, target, actual, weight) ==
    \E out \in {BalancedScorecard_add_kpi(kpis, nextId, perspective, kpi_name, target, actual, weight)} :
        /\ out.nextId <= MaxId + 1
        /\ kpis' = out.rows
        /\ nextId' = out.nextId
        /\ before' = kpis
        /\ last' = Call("add", perspective, kpi_name, target, actual, weight, out, <<>>, NoInput)
        /\ UNCHANGED running

\* BalancedScorecard.edit_kpi
EditIndicator(perspective, kpi_name, new_target, new_actual) ==
    \E out \in {BalancedScorecard_edit_kpi(kpis, nextId, perspective, kpi_name, new_target, new_actual)} :
        /\ out.nextId <= MaxId + 1
        /\ kpis' = out.rows
        /\ nextId' = out.nextId
        /\ before' = kpis
        /\ last' = Call("edit", perspective, kpi_name, new_target, new_actual, 0, out, <<>>, NoInput)
        /\ UNCHANGED running

\* BalancedScorecard.delete_kpi
RemoveIndicator(perspective, kpi_name) ==
    \E out \in {BalancedScorecard_delete_kpi(kpis, nextId, perspective, kpi_name)} :
        /\ kpis' = out.rows
        /\ nextId' = out.nextId
        /\ before' = kpis
        /\ last' = Call("delete", perspective, kpi_name, 0, 0, 0, out, <<>>, NoInput)
        /\ UNCHANGED running

\* DatabaseManager.get_kpis_by_perspective
Report ==
    \E got \in {get_kpis_by_perspective(kpis)} :
        /\ before' = kpis
        /\ last' = Call("report", <<>>, <<>>, 0, 0, 0,
                        [raised |-> got.raised, returned |-> got.returned, printed |-> <<>>],
                        got.grouped, NoInput)
        /\ UNCHANGED <<kpis, nextId, running>>

\* The inputs of the calls: two names in one perspective, one name in a
\* second, and one under a label that is no perspective.
Risk == <<"R","i","s","k">>

NPS == <<"N","P","S">>

ROI == <<"R","O","I">>

ApiKeys == {<<Financial, NPS>>, <<Financial, ROI>>, <<Customer, NPS>>, <<Risk, NPS>>}

ApiTargets == {0, 32}

ApiWeights == {1, 2}

Next ==
    \/ \E k \in ApiKeys, w \in ApiWeights : AddIndicator(k[1], k[2], 32, -3, w)
    \/ \E k \in ApiKeys, t \in ApiTargets : EditIndicator(k[1], k[2], t, 1)
    \/ \E k \in ApiKeys : RemoveIndicator(k[1], k[2])
    \/ Report

Spec == Init /\ [][Next]_vars

\* The same calls on one record, over more numbers.
ScoreValues == {-3, 0, 1, 2, 3, 32}

ScoreNext ==
    \/ \E t \in ScoreValues, a \in ScoreValues : AddIndicator(Financial, ROI, t, a, 1)
    \/ \E t \in ScoreValues, a \in ScoreValues : EditIndicator(Financial, ROI, t, a)
    \/ RemoveIndicator(Financial, ROI)
    \/ Report

ScoreSpec == Init /\ [][ScoreNext]_vars

-----------------------------------------------------------------------------
\* The menu loop.

MenuInput(choice_in, p_in, name_in, target_in, actual_in, confirm_in, reads) ==
    [choice |-> choice_in,
     p_input |-> IF "perspective" \in reads THEN p_in ELSE <<>>,
     name_in |-> IF "name" \in reads THEN name_in ELSE <<>>,
     target_in |-> IF "target" \in reads THEN target_in ELSE <<>>,
     actual_in |-> IF "actual" \in reads THEN actual_in ELSE <<>>,
     confirm_in |-> IF "confirm" \in reads THEN confirm_in ELSE <<>>,
     reads |-> reads]

MenuStep(op, out, input) ==
    /\ out.nextId <= MaxId + 1
    /\ kpis' = out.rows
    /\ nextId' = out.nextId
    /\ before' = kpis
    /\ running' = out.continues
    /\ last' = Call(op, out.perspective, out.name, out.target, out.actual, 1,
                    [raised |-> out.raised, returned |-> "None", printed |-> out.printed],
                    <<>>, input)

MenuAdd(choice_in, p_in, name_in, target_in, actual_in) ==
    /\ running
    /\ Choice(choice_in) \in AddChoices
    /\ \E out \in {menu_add(kpis, nextId, p_in, name_in, target_in, actual_in)} :
           MenuStep("menu add", out,
                    MenuInput(choice_in, p_in, name_in, target_in, actual_in, <<>>, out.reads))

MenuView(choice_in) ==
    /\ running
    /\ Choice(choice_in) \notin AddChoices
    /\ Choice(choice_in) \in ViewChoices
    /\ \E shown \in {display_report(kpis)} :
           /\ before' = kpis
           /\ running' = (shown.raised = "None")
           /\ last' = Call("menu view", <<>>, <<>>, 0, 0, 0,
                           [raised |-> shown.raised, returned |-> "None", printed |-> shown.printed],
                           shown.grouped, MenuInput(choice_in, <<>>, <<>>, <<>>, <<>>, <<>>, {}))
           /\ UNCHANGED <<kpis, nextId>>

MenuEdit(choice_in, p_in, name_in, target_in, actual_in) ==
    /\ running
    /\ Choice(choice_in) \notin AddChoices \cup ViewChoices
    /\ Choice(choice_in) \in EditChoices
    /\ \E out \in {menu_edit(kpis, nextId, p_in, name_in, target_in, actual_in)} :
           MenuStep("menu edit", out,
                    MenuInput(choice_in, p_in, name_in, target_in, actual_in, <<>>, out.reads))

MenuDelete(choice_in, p_in, name_in, confirm_in) ==
    /\ running
    /\ Choice(choice_in) \notin AddChoices \cup ViewChoices \cup EditChoices
    /\ Choice(choice_in) \in DeleteChoices
    /\ \E out \in {menu_delete(kpis, nextId, p_in, name_in, confirm_in)} :
           MenuStep("menu delete", out,
                    MenuInput(choice_in, p_in, name_in, <<>>, <<>>, confirm_in, out.reads))

\* lines 196-198: break
MenuExit(choice_in) ==
    /\ running
    /\ Choice(choice_in) \notin AddChoices \cup ViewChoices \cup EditChoices \cup DeleteChoices
    /\ Choice(choice_in) \in ExitChoices
    /\ before' = kpis
    /\ running' = FALSE
    /\ last' = Call("menu exit", <<>>, <<>>, 0, 0, 0,
                    [raised |-> "None", returned |-> "None", printed |-> <<"Exiting. Goodbye!">>],
                    <<>>, MenuInput(choice_in, <<>>, <<>>, <<>>, <<>>, <<>>, {}))
    /\ UNCHANGED <<kpis, nextId>>

\* lines 200-201
MenuInvalid(choice_in) ==
    /\ running
    /\ Choice(choice_in) \notin AddChoices \cup ViewChoices \cup EditChoices \cup DeleteChoices \cup ExitChoices
    /\ before' = kpis
    /\ running' = TRUE
    /\ last' = Call("menu invalid", <<>>, <<>>, 0, 0, 0,
                    [raised |-> "None", returned |-> "None", printed |-> <<"Invalid option.">>],
                    <<>>, MenuInput(choice_in, <<>>, <<>>, <<>>, <<>>, <<>>, {}))
    /\ UNCHANGED <<kpis, nextId>>

\* What is typed at the prompts.
ChoiceInputs == {<<"1">>, <<"V","i","e","w"," ","R","e","p","o","r","t">>, <<" ","3",".", " ","E","d","i","t"," ","a"," ","K","P","I">>, <<"4">>, <<"E","X","I","T"," ">>, <<"6">>}

AddPerspectiveInputs == {<<"1">>, <<"0">>}

EditPerspectiveInputs == {<<" ","F","I","N","A","N","C","I","A","L">>, <<"r","i","s","k">>}

DeletePerspectiveInputs == {<<"f","i","n","a","n","c","i","a","l"," ">>, <<"5">>}

NameInputs == {<<"A">>, <<" ","a">>, <<UpperEAcute>>, <<LowerEAcute>>}

TargetInputs == {<<"3","2">>, <<"a","b","c">>}

AddActualInputs == {<<"-","3">>, <<>>}

EditActualInputs == {<<" ","1">>, <<"1",",","5">>}

ConfirmInputs == {<<"Y","e","s">>, <<"n","o">>}

MenuNext ==
    \/ \E c \in ChoiceInputs, p \in AddPerspectiveInputs, n \in NameInputs, t \in TargetInputs, a \in AddActualInputs :
          MenuAdd(c, p, n, t, a)
    \/ \E c \in ChoiceInputs : MenuView(c)
    \/ \E c \in ChoiceInputs, p \in EditPerspectiveInputs, n \in NameInputs, t \in TargetInputs, a \in EditActualInputs :
          MenuEdit(c, p, n, t, a)
    \/ \E c \in ChoiceInputs, p \in DeletePerspectiveInputs, n \in NameInputs, x \in ConfirmInputs :
          MenuDelete(c, p, n, x)
    \/ \E c \in ChoiceInputs : MenuExit(c)
    \/ \E c \in ChoiceInputs : MenuInvalid(c)

MenuSpec == Init /\ [][MenuNext]_vars

-----------------------------------------------------------------------------
\* The properties.

HasRecord(rows, perspective, name) ==
    \E i \in 1..Len(rows) : rows[i].perspective = perspective /\ rows[i].name = name

Pairs(rows) == {<<rows[i].perspective, rows[i].name>> : i \in 1..Len(rows)}

Without(rows, perspective, name) ==
    SelectSeq(rows, LAMBDA r : ~(r.perspective = perspective /\ r.name = name))

Abs(x) == IF x < 0 THEN -x ELSE x

\* score (in hundredths) is actual / target * 100 rounded to two decimals:
\* the nearest hundredth, the even one of the two when they are equally near.
ScoreRule(r) ==
    IF r.target = 0 THEN r.score = 0
    ELSE /\ 2 * Abs(r.score * r.target - r.actual * 10000) <= Abs(r.target)
         /\ 2 * Abs(r.score * r.target - r.actual * 10000) = Abs(r.target) => r.score % 2 = 0

\* C1: the store never holds two records of one (perspective, name) pair,
\* and an add of a pair that has a record raises ValueError and leaves the
\* store exactly as it was.
C1_UniquePairs ==
    /\ \A i, j \in 1..Len(kpis) :
          (kpis[i].perspective = kpis[j].perspective /\ kpis[i].name = kpis[j].name) => i = j
    /\ (last.op = "add" /\ HasRecord(before, last.perspective, last.name))
          => (last.raised = "ValueError" /\ kpis = before)

C1_Witness ==
    /\ last.op = "add"
    /\ HasRecord(before, last.perspective, last.name)
    /\ last.raised = "ValueError"
    /\ Len(kpis) = 2

\* C2: an add under a perspective that is none of the four labels is
\* refused with an error and inserts nothing.
C2_InvalidPerspectiveRefused ==
    (last.op = "add" /\ ~Occurs(PERSPECTIVES, last.perspective))
        => (last.raised # "None" /\ kpis = before)

\* C3: in every state the calls reach, the report completes and holds
\* exactly the four perspectives in their canonical order, one without
\* records with an empty sequence.
C3_ReportComplete ==
    \A got \in {get_kpis_by_perspective(kpis)} :
        /\ got.raised = "None"
        /\ Len(got.grouped) = Len(PERSPECTIVES)
        /\ \A k \in 1..Len(got.grouped) :
              /\ got.grouped[k].key = PERSPECTIVES[k]
              /\ (\A i \in 1..Len(kpis) : kpis[i].perspective # PERSPECTIVES[k])
                    => got.grouped[k].items = <<>>

\* C4: an edit of a pair that has no record reports that it was not found
\* and leaves the store as it was: same records, same count.
C4_EditNotFound ==
    (last.op = "edit" /\ ~HasRecord(before, last.perspective, last.name))
        => /\ last.printed = <<"not found">>
           /\ kpis = before
           /\ Len(kpis) = Len(before)

C4_Witness ==
    /\ last.op = "edit"
    /\ ~HasRecord(before, last.perspective, last.name)
    /\ before # <<>>
    /\ last.printed = <<"not found">>

\* What the caller of a call holds afterwards: the exception, the value.
CallerSees(out) == <<out.raised, out.returned>>

\* C5: what edit hands back to its caller for a pair without a record
\* differs from what it hands back when the update was applied.
C5_EditFailureVisible ==
    \A present \in ApiKeys, absent \in ApiKeys :
        (HasRecord(kpis, present[1], present[2]) /\ ~HasRecord(kpis, absent[1], absent[2]))
            => CallerSees(BalancedScorecard_edit_kpi(kpis, nextId, absent[1], absent[2], 32, 1))
                 # CallerSees(BalancedScorecard_edit_kpi(kpis, nextId, present[1], present[2], 32, 1))

\* C6: delete raises nothing, removes the record of its pair and no other
\* (nothing when the pair has none), and a second delete of the same pair
\* raises nothing and leaves the store of the first.
C6_DeleteIdempotent ==
    last.op = "delete"
        => /\ last.raised = "None"
           /\ kpis = Without(before, last.perspective, last.name)
           /\ ~HasRecord(before, last.perspective, last.name) => kpis = before
           /\ \A again \in {BalancedScorecard_delete_kpi(kpis, nextId, last.perspective, last.name)} :
                 again.raised = "None" /\ again.rows = kpis

C6_Witness ==
    /\ last.op = "delete"
    /\ ~HasRecord(before, last.perspective, last.name)
    /\ Len(before) = 2
    /\ kpis = before

\* C7: every record of the store has score = round(actual / target * 100, 2)
\* when target is not 0 and score = 0 when it is, whether add or update
\* wrote it.
C7_ScoreInvariant ==
    \A i \in 1..Len(kpis) : ScoreRule(kpis[i])

C7_Witness ==
    /\ last.op = "edit"
    /\ HasRecord(before, last.perspective, last.name)
    /\ \E i \in 1..Len(kpis) : kpis[i].target = 32 /\ kpis[i].actual = -3 /\ kpis[i].score = -938
    /\ before[1].score = 6667

\* C8: an update that finds its record sets that record's target and actual
\* to the new values and recomputes its score; the record's id, perspective,
\* name and weight, every other record and the set of pairs stay as they were.
C8_UpdateFrame ==
    (last.op = "edit" /\ HasRecord(before, last.perspective, last.name))
        => /\ last.raised = "None"
           /\ Len(kpis) = Len(before)
           /\ Pairs(kpis) = Pairs(before)
           /\ \A i \in 1..Len(kpis) :
                 IF before[i].perspective = last.perspective /\ before[i].name = last.name
                 THEN /\ kpis[i] = [before[i] EXCEPT !.target = last.target, !.actual = last.actual,
                                                     !.score = kpis[i].score]
                      /\ ScoreRule(kpis[i])
                 ELSE kpis[i] = before[i]

C8_Witness ==
    /\ last.op = "edit"
    /\ HasRecord(before, last.perspective, last.name)
    /\ Len(before) = 2
    /\ kpis # before
    /\ \E i \in 1..Len(kpis) : kpis[i] # before[i] /\ kpis[i].weight = 2

\* The selection typed is no number 1..4 and no label, compared ignoring case.
InvalidSelection(p_in) ==
    /\ PyLower(PyStrip(p_in)) \notin {<<"1">>, <<"2">>, <<"3">>, <<"4">>}
    /\ \A k \in 1..Len(PERSPECTIVES) : PyLower(PERSPECTIVES[k]) # PyLower(PyStrip(p_in))

Abandoned ==
    /\ last.op \in {"menu add", "menu edit", "menu delete"}
    /\ \/ "perspective" \in last.input.reads /\ InvalidSelection(last.input.p_input)
       \/ /\ last.op \in {"menu add", "menu edit"}
          /\ \/ "target" \in last.input.reads /\ ~PyFloat(last.input.target_in).ok
             \/ "actual" \in last.input.reads /\ ~PyFloat(last.input.actual_in).ok

\* C9: a menu Add, Edit or Delete with a selection that is no perspective,
\* or an Add or Edit with a target or actual that is no number, changes
\* nothing in the store and the loop goes on to the next prompt.
C9_BadInputAbandoned ==
    Abandoned => (kpis = before /\ running /\ last.raised = "None")

C9_Witness ==
    /\ last.op = "menu edit"
    /\ "actual" \in last.input.reads
    /\ ~PyFloat(last.input.actual_in).ok
    /\ HasRecord(kpis, last.perspective, last.name)
    /\ running

\* C10: through the menu alone, no two records of one perspective have
\* names that are equal ignoring case.
C10_NoNamesEqualIgnoringCase ==
    \A i, j \in 1..Len(kpis) :
        (kpis[i].perspective = kpis[j].perspective /\ PyLower(kpis[i].name) = PyLower(kpis[j].name))
            => i = j

====
